---- MODULE Spec2Model ----
(***************************************************************************)
(* Model of the stake_reserve crank of the liquid-staking pool:            *)
(* programs/marinade-finance/src/instructions/crank/stake_reserve.rs.      *)
(*                                                                         *)
(* One invocation of StakeReserve::process is one action (Process).  The   *)
(* handler itself is the operator process, which returns the in-memory     *)
(* accounts at the point where the Rust code returns; Commit is the        *)
(* runtime's all-or-nothing rule that decides what of it becomes durable.  *)
(* Amounts are scaled down: U64Max stands for u64::MAX.                    *)
(***************************************************************************)
EXTENDS Integers, Sequences, FiniteSets, TLC

VARIABLES
    state,          \* Pool Aggregate State (self.state)
    validator_list, \* validator registry: sequence of ValidatorRecord
    stake_list,     \* delegation registry: sequence of DelegationRecord
    reserve_pda,    \* lamports of the reserve account
    clock,          \* slot of the Clock sysvar (the epoch follows from it)
    call,           \* the last invocation of process, as the bot observes it
    audit           \* an observer's tally of the invocations (history only)

vars == <<state, validator_list, stake_list, reserve_pda, clock, call, audit>>

----------------------------------------------------------------------------
(* Bounds of the model *)

U64Max == 15
MaxFunds == 5
MaxSlot == 4
MaxExtraRuns == 1

(* Program configuration *)

MinStake == 2
SlotsForStakeDelta == 1
SlotsPerEpoch == 3
RentExemptMinimum == 1
RentExemptForTokenAcc == 1
StakeListCapacity == 3

Overflow == 0 - 1
NoCall == [op |-> "none"]

----------------------------------------------------------------------------
(* Integer helpers of the Rust standard library, at the model's width *)

saturating_add(a, b) == IF a + b > U64Max THEN U64Max ELSE a + b

saturating_sub(a, b) == IF a < b THEN 0 ELSE a - b

checked_add(a, b) == IF a + b > U64Max THEN Overflow ELSE a + b

checked_sub(a, b) == IF a < b THEN Overflow ELSE a - b

Max(a, b) == IF a >= b THEN a ELSE b

Min(a, b) == IF a <= b THEN a ELSE b

RECURSIVE SumActive(_)
SumActive(list) ==
    IF list = <<>> THEN 0 ELSE Head(list).active_balance + SumActive(Tail(list))

RECURSIVE SumAmount(_)
SumAmount(list) ==
    IF list = <<>> THEN 0
    ELSE Head(list).last_update_delegated_lamports + SumAmount(Tail(list))

----------------------------------------------------------------------------
(* Sysvars *)

epoch_of(slot) == slot \div SlotsPerEpoch

get_last_slot_in_epoch(epoch) == (epoch + 1) * SlotsPerEpoch - 1

----------------------------------------------------------------------------
(* Inputs of one invocation: the instruction argument and the accounts the *)
(* caller supplies.                                                        *)

ValidatorKeys == {"voteA", "voteB"}

StakeStates == {"Uninitialized", "Initialized"}

Inputs ==
    [ validator_index   : 0..2,
      validator_vote    : ValidatorKeys,
      validator_list_ok : BOOLEAN,
      stake_list_ok     : BOOLEAN,
      stake_history_ok  : BOOLEAN,
      stake_state       : StakeStates,
      stake_lamports    : (RentExemptMinimum - 1)..(RentExemptMinimum + 1) ]

CpiSteps == {"Transfer", "Initialize", "Delegate"}

----------------------------------------------------------------------------
(* Helpers of the pool state and of the two registries *)

check_validator_list(in) == in.validator_list_ok

check_stake_list(in) == in.stake_list_ok

stake_delta(st, reserve_balance) == reserve_balance - st.rent_exempt_for_token_acc

on_transfer_from_reserve(st, amount) ==
    LET left == checked_sub(st.available_reserve_balance, amount)
    IN  IF left = Overflow THEN [ok |-> FALSE, state |-> st]
        ELSE [ok |-> TRUE, state |-> [st EXCEPT !.available_reserve_balance = left]]

validator_stake_target(st, validator, total_stake_target) ==
    IF st.total_validator_score = 0 THEN 0
    ELSE (total_stake_target * validator.score) \div st.total_validator_score

check_address(actual, expected) == actual = expected

stake_system_add(list, stake_account_key, amount, epoch) ==
    IF Len(list) >= StakeListCapacity THEN [ok |-> FALSE, list |-> list]
    ELSE [ok |-> TRUE,
          list |-> Append(list, [stake_account |-> stake_account_key,
                                 last_update_delegated_lamports |-> amount,
                                 last_update_epoch |-> epoch,
                                 is_emergency_unstaking |-> 0])]

validator_system_set(list, index, validator) == [list EXCEPT ![index + 1] = validator]

----------------------------------------------------------------------------
(* The external delegation protocol: each step either fails, leaving the   *)
(* accounts alone, or applies its effect.  fail names the step the         *)
(* external program rejects in this invocation ("none": it rejects none).  *)

Logged(acc, step, ok) == [acc EXCEPT !.cpi = Append(@, [step |-> step, ok |-> ok])]

transfer(acc, amount, fail) ==
    IF fail = "Transfer" \/ acc.reserve_pda < amount
    THEN [ok |-> FALSE, acc |-> Logged(acc, "Transfer", FALSE)]
    ELSE [ok |-> TRUE,
          acc |-> Logged([acc EXCEPT !.reserve_pda = @ - amount,
                                     !.stake_account.lamports = @ + amount],
                         "Transfer", TRUE)]

initialize(acc, fail) ==
    IF \/ fail = "Initialize"
       \/ acc.stake_account.state # "Uninitialized"
       \/ acc.stake_account.lamports < RentExemptMinimum
    THEN [ok |-> FALSE, acc |-> Logged(acc, "Initialize", FALSE)]
    ELSE [ok |-> TRUE,
          acc |-> Logged([acc EXCEPT !.stake_account.state = "Initialized"],
                         "Initialize", TRUE)]

delegate_stake_unchecked(acc, vote, fail) ==
    IF fail = "Delegate" \/ acc.stake_account.state # "Initialized"
    THEN [ok |-> TRUE, acc |-> Logged(acc, "Delegate", FALSE)]
    ELSE [ok |-> TRUE,
          acc |-> Logged([acc EXCEPT !.stake_account.state = "Delegated",
                                     !.stake_account.voter = vote],
                         "Delegate", TRUE)]

delegate_stake(acc, vote, fail) ==
    IF fail = "Delegate" \/ acc.stake_account.state # "Initialized"
    THEN [ok |-> FALSE, acc |-> Logged(acc, "Delegate", FALSE)]
    ELSE [ok |-> TRUE,
          acc |-> Logged([acc EXCEPT !.stake_account.state = "Delegated",
                                     !.stake_account.voter = vote],
                         "Delegate", TRUE)]

----------------------------------------------------------------------------
(* StakeReserve *)

check_stake_history(in) == in.stake_history_ok

stake_account_uninitialized(acc) == acc.stake_account.state = "Uninitialized"

stake_account_balance_at_least(acc) == acc.stake_account.lamports >= RentExemptMinimum

stake_account_balance_ok(acc) == acc.stake_account.lamports = RentExemptMinimum

total_stake_target(st, delta) == saturating_add(st.total_active_balance, delta)

double_stake_never(validator, epoch) == FALSE

double_stake(validator, epoch) == validator.last_stake_delta_epoch = epoch

use_extra_run_kept(st) == st

use_extra_run(st) == [st EXCEPT !.extra_stake_delta_runs = @ - 1]

outside_window_late(st, epoch, slot) ==
    slot + 1 < saturating_sub(get_last_slot_in_epoch(epoch), st.slots_for_stake_delta)

outside_window(st, epoch, slot) ==
    slot < saturating_sub(get_last_slot_in_epoch(epoch), st.slots_for_stake_delta)

reached_target(validator, target) == validator.active_balance >= target

stake_target_no_remainder_rule(target, active_balance, min_stake, delta) ==
    Min(Max(saturating_sub(target, active_balance), min_stake), delta)

stake_target_remainder_le(target, active_balance, min_stake, delta) ==
    LET raw == Min(Max(saturating_sub(target, active_balance), min_stake), delta)
    IN  IF delta - raw <= min_stake THEN delta ELSE raw

stake_target_uncapped(target, active_balance, min_stake, delta) ==
    Max(saturating_sub(target, active_balance), min_stake)

stake_target(target, active_balance, min_stake, delta) ==
    LET raw == Min(Max(saturating_sub(target, active_balance), min_stake), delta)
    IN  IF delta - raw < min_stake THEN delta ELSE raw

nothing_to_stake_negative(delta) == delta < 0

nothing_to_stake(delta) == delta <= 0

new_active_balance_twice(validator, amount) ==
    checked_add(validator.active_balance, amount + amount)

new_active_balance(validator, amount) == checked_add(validator.active_balance, amount)

new_total_active_balance_stale(st, amount) == st.total_active_balance

new_total_active_balance_saturating(st, amount) ==
    saturating_add(st.total_active_balance, amount)

new_total_active_balance(st, amount) == checked_add(st.total_active_balance, amount)

(* The error each failing check of the handler returns. *)
ErrorCode(cond) ==
    CASE cond = "stake_history"         -> "InvalidArgument"
      [] cond = "stake_account_state"   -> "InvalidAccountData"
      [] cond = "stake_account_balance" -> "InvalidAccountData"
      [] cond = "window"                -> "Custom332"
      [] cond = "overflow"              -> "CalculationFailure"

(* The errors of the registry helpers and of the external programs. *)
HelperErrorCode(cond) ==
    CASE cond = "validator_list"  -> "ChecksumMismatch"
      [] cond = "stake_list"      -> "ChecksumMismatch"
      [] cond = "validator_index" -> "IndexOutOfRange"
      [] cond = "validator_vote"  -> "IdentityMismatch"
      [] cond = "stake_list_full" -> "CapacityExceeded"
      [] cond = "transfer"        -> "TransferFailed"
      [] cond = "initialize"      -> "InitializeFailed"
      [] cond = "delegate"        -> "DelegateFailed"

Ret(result, cond, acc, amount, delta, target) ==
    [result |-> result, cond |-> cond, acc |-> acc, amount |-> amount,
     stake_delta |-> delta, validator_stake_target |-> target]

Err(cond, acc, delta, target) == Ret(ErrorCode(cond), cond, acc, 0, delta, target)

HelperErr(cond, acc, delta, target) ==
    Ret(HelperErrorCode(cond), cond, acc, 0, delta, target)

record_stake_target(acc, in, epoch, validator, amount, delta, target) ==
    LET added == stake_system_add(acc.stake_list, acc.stake_account.key, target, epoch)
        acc1 == [acc EXCEPT !.stake_list = added.list]
        active == new_active_balance(validator, amount)
        validator1 == [validator EXCEPT !.active_balance = active,
                                        !.last_stake_delta_epoch = epoch]
        acc2 == [acc1 EXCEPT !.state.last_stake_delta_epoch = epoch,
                             !.validator_list =
                                 validator_system_set(@, in.validator_index, validator1)]
        total == new_total_active_balance(acc2.state, amount)
        acc3 == [acc2 EXCEPT !.state.total_active_balance = total]
    IN  IF ~added.ok THEN HelperErr("stake_list_full", acc, delta, target)
        ELSE IF active = Overflow
        THEN Err("overflow", acc1, delta, target)
        ELSE IF total = Overflow
        THEN Err("overflow", acc2, delta, target)
        ELSE Ret("Ok", "staked", acc3, amount, delta, target)

(* Lines 271-298: the bookkeeping after the three protocol steps. *)
record_stake(acc, in, epoch, validator, amount, delta, target) ==
    LET added == stake_system_add(acc.stake_list, acc.stake_account.key, amount, epoch)
        acc1 == [acc EXCEPT !.stake_list = added.list]
        active == new_active_balance(validator, amount)
        validator1 == [validator EXCEPT !.active_balance = active,
                                        !.last_stake_delta_epoch = epoch]
        acc2 == [acc1 EXCEPT !.state.last_stake_delta_epoch = epoch,
                             !.validator_list =
                                 validator_system_set(@, in.validator_index, validator1)]
        total == new_total_active_balance(acc2.state, amount)
        acc3 == [acc2 EXCEPT !.state.total_active_balance = total]
    IN  IF ~added.ok THEN HelperErr("stake_list_full", acc, delta, target)
        ELSE IF active = Overflow
        THEN Err("overflow", acc1, delta, target)
        ELSE IF total = Overflow
        THEN Err("overflow", acc2, delta, target)
        ELSE Ret("Ok", "staked", acc3, amount, delta, target)

delegate_new_stake_initialize_first(acc, in, epoch, validator, amount, delta, target, fail) ==
    LET i == initialize(acc, fail)
        t == transfer(i.acc, amount, fail)
        r == on_transfer_from_reserve(t.acc.state, amount)
        acc1 == [t.acc EXCEPT !.state = r.state]
        d == delegate_stake(acc1, in.validator_vote, fail)
    IN  IF ~i.ok THEN HelperErr("initialize", i.acc, delta, target)
        ELSE IF ~t.ok THEN HelperErr("transfer", t.acc, delta, target)
        ELSE IF ~r.ok THEN Err("overflow", t.acc, delta, target)
        ELSE IF ~d.ok THEN HelperErr("delegate", d.acc, delta, target)
        ELSE record_stake(d.acc, in, epoch, validator, amount, delta, target)

(* Lines 210-269: Transfer, on_transfer_from_reserve, Initialize, Delegate. *)
delegate_new_stake(acc, in, epoch, validator, amount, delta, target, fail) ==
    LET t == transfer(acc, amount, fail)
        r == on_transfer_from_reserve(t.acc.state, amount)
        acc1 == [t.acc EXCEPT !.state = r.state]
        i == initialize(acc1, fail)
        d == delegate_stake(i.acc, in.validator_vote, fail)
    IN  IF ~t.ok THEN HelperErr("transfer", t.acc, delta, target)
        ELSE IF ~r.ok THEN Err("overflow", t.acc, delta, target)
        ELSE IF ~i.ok THEN HelperErr("initialize", i.acc, delta, target)
        ELSE IF ~d.ok THEN HelperErr("delegate", d.acc, delta, target)
        ELSE record_stake(d.acc, in, epoch, validator, amount, delta, target)

stake_validator_unchecked_vote(acc, in, epoch, slot, delta, fail) ==
    LET total == total_stake_target(acc.state, delta)
        stored == acc.validator_list[in.validator_index + 1]
        double == double_stake(stored, epoch)
        acc1 == IF double THEN [acc EXCEPT !.state = use_extra_run(@)] ELSE acc
        validator == IF double THEN stored
                     ELSE [stored EXCEPT !.last_stake_delta_epoch = epoch]
        target == validator_stake_target(acc.state, validator, total)
        amount == stake_target(target, validator.active_balance,
                               acc.state.min_stake, delta)
    IN  IF in.validator_index >= Len(acc.validator_list)
        THEN HelperErr("validator_index", acc, delta, 0)
        ELSE IF double /\ acc.state.extra_stake_delta_runs = 0
        THEN Ret("Ok", "double_stake", acc, 0, delta, 0)
        ELSE IF outside_window(acc1.state, epoch, slot)
        THEN Err("window", acc1, delta, 0)
        ELSE IF reached_target(validator, target)
        THEN Ret("Ok", "reached_target", acc1, 0, delta, target)
        ELSE delegate_new_stake(acc1, in, epoch, validator, amount, delta, target, fail)

stake_validator_marks_early(acc, in, epoch, slot, delta, fail) ==
    LET total == total_stake_target(acc.state, delta)
        stored == acc.validator_list[in.validator_index + 1]
        double == double_stake(stored, epoch)
        acc1 == IF double THEN [acc EXCEPT !.state = use_extra_run(@)] ELSE acc
        validator == IF double THEN stored
                     ELSE [stored EXCEPT !.last_stake_delta_epoch = epoch]
        acc2 == [acc1 EXCEPT !.validator_list =
                                 validator_system_set(@, in.validator_index, validator)]
        target == validator_stake_target(acc.state, validator, total)
        amount == stake_target(target, validator.active_balance,
                               acc.state.min_stake, delta)
    IN  IF in.validator_index >= Len(acc.validator_list)
        THEN HelperErr("validator_index", acc, delta, 0)
        ELSE IF ~check_address(in.validator_vote, stored.validator_account)
        THEN HelperErr("validator_vote", acc, delta, 0)
        ELSE IF double /\ acc.state.extra_stake_delta_runs = 0
        THEN Ret("Ok", "double_stake", acc, 0, delta, 0)
        ELSE IF outside_window(acc1.state, epoch, slot)
        THEN Err("window", acc2, delta, 0)
        ELSE IF reached_target(validator, target)
        THEN Ret("Ok", "reached_target", acc2, 0, delta, target)
        ELSE delegate_new_stake(acc2, in, epoch, validator, amount, delta, target, fail)

(* Lines 141-208: the validator, the epoch guard, the window, the amount. *)
stake_validator(acc, in, epoch, slot, delta, fail) ==
    LET total == total_stake_target(acc.state, delta)
        stored == acc.validator_list[in.validator_index + 1]
        double == double_stake(stored, epoch)
        acc1 == IF double THEN [acc EXCEPT !.state = use_extra_run(@)] ELSE acc
        validator == IF double THEN stored
                     ELSE [stored EXCEPT !.last_stake_delta_epoch = epoch]
        target == validator_stake_target(acc.state, validator, total)
        amount == stake_target(target, validator.active_balance,
                               acc.state.min_stake, delta)
    IN  IF in.validator_index >= Len(acc.validator_list)
        THEN HelperErr("validator_index", acc, delta, 0)
        ELSE IF ~check_address(in.validator_vote, stored.validator_account)
        THEN HelperErr("validator_vote", acc, delta, 0)
        ELSE IF double /\ acc.state.extra_stake_delta_runs = 0
        THEN Ret("Ok", "double_stake", acc, 0, delta, 0)
        ELSE IF outside_window(acc1.state, epoch, slot)
        THEN Err("window", acc1, delta, 0)
        ELSE IF reached_target(validator, target)
        THEN Ret("Ok", "reached_target", acc1, 0, delta, target)
        ELSE delegate_new_stake(acc1, in, epoch, validator, amount, delta, target, fail)

process_delta_first(acc, in, epoch, slot, fail) ==
    LET delta == stake_delta(acc.state, acc.reserve_pda)
    IN  IF nothing_to_stake(delta)
        THEN Ret("Ok", "no_stake_delta", acc, 0, delta, 0)
        ELSE IF ~check_validator_list(in)
        THEN HelperErr("validator_list", acc, 0, 0)
        ELSE IF ~check_stake_list(in)
        THEN HelperErr("stake_list", acc, 0, 0)
        ELSE IF ~check_stake_history(in)
        THEN Err("stake_history", acc, 0, 0)
        ELSE IF ~stake_account_uninitialized(acc)
        THEN Err("stake_account_state", acc, 0, 0)
        ELSE IF ~stake_account_balance_ok(acc)
        THEN Err("stake_account_balance", acc, 0, 0)
        ELSE stake_validator(acc, in, epoch, slot, delta, fail)

(* Lines 75-133: the checks of the accounts and the stake delta. *)
process(acc, in, epoch, slot, fail) ==
    LET delta == stake_delta(acc.state, acc.reserve_pda)
    IN  IF ~check_validator_list(in)
        THEN HelperErr("validator_list", acc, 0, 0)
        ELSE IF ~check_stake_list(in)
        THEN HelperErr("stake_list", acc, 0, 0)
        ELSE IF ~check_stake_history(in)
        THEN Err("stake_history", acc, 0, 0)
        ELSE IF ~stake_account_uninitialized(acc)
        THEN Err("stake_account_state", acc, 0, 0)
        ELSE IF ~stake_account_balance_ok(acc)
        THEN Err("stake_account_balance", acc, 0, 0)
        ELSE IF nothing_to_stake(delta)
        THEN Ret("Ok", "no_stake_delta", acc, 0, delta, 0)
        ELSE stake_validator(acc, in, epoch, slot, delta, fail)

----------------------------------------------------------------------------
(* The specification *)

Accounts(in) ==
    [ state          |-> state,
      validator_list |-> validator_list,
      stake_list     |-> stake_list,
      reserve_pda    |-> reserve_pda,
      stake_account  |-> [key |-> Len(stake_list) + 1,
                          state |-> in.stake_state,
                          lamports |-> in.stake_lamports,
                          voter |-> "none"],
      cpi            |-> <<>> ]

(* The runtime's rule: an invocation that returns an error leaves no trace *)
(* in any account; one that returns Ok makes its writes durable.           *)
Commit(acc, r) == IF r.result = "Ok" THEN r.acc ELSE acc

(* The observer's tally.  Per epoch: the staking actions of each          *)
(* validator, the extra runs consumed by calls for it, and the budget of   *)
(* extra runs at the start of the epoch.  Per sequence of invocations      *)
(* without a deposit: the stake delta at its start and the lamports        *)
(* transferred out of the reserve since.                                   *)
NoAudit ==
    [ staked |-> <<0, 0>>, consumed |-> <<0, 0>>, budget |-> 0,
      start_delta |-> 0, transferred |-> 0 ]

NewEpoch(a, runs) ==
    [a EXCEPT !.staked = <<0, 0>>, !.consumed = <<0, 0>>, !.budget = runs]

NewSequence(a, delta) == [a EXCEPT !.start_delta = delta, !.transferred = 0]

Tally(a, v, staked, runs, lamports) ==
    LET a1 == IF v \in DOMAIN a.staked
              THEN [a EXCEPT !.staked[v] = @ + (IF staked THEN 1 ELSE 0),
                             !.consumed[v] = @ + runs]
              ELSE a
    IN  [a1 EXCEPT !.transferred = @ + lamports]

InitialBalances == {0, U64Max - 2}

(* The target weights of voteA and voteB: equal, or all on the validator   *)
(* that already holds the pool's stake.                                    *)
InitialScores(a) == IF a = 0 THEN {<<1, 1>>} ELSE {<<1, 1>>, <<1, 0>>}

Init ==
    /\ \E a \in InitialBalances, runs \in 0..MaxExtraRuns :
       \E scores \in InitialScores(a) :
        /\ validator_list =
              << [validator_account |-> "voteA", active_balance |-> a,
                  score |-> scores[1], last_stake_delta_epoch |-> U64Max],
                 [validator_account |-> "voteB", active_balance |-> 0,
                  score |-> scores[2], last_stake_delta_epoch |-> U64Max] >>
        /\ state =
              [ total_active_balance      |-> a,
                total_validator_score     |-> scores[1] + scores[2],
                extra_stake_delta_runs    |-> runs,
                last_stake_delta_epoch    |-> U64Max,
                min_stake                 |-> MinStake,
                slots_for_stake_delta     |-> SlotsForStakeDelta,
                rent_exempt_for_token_acc |-> RentExemptForTokenAcc,
                available_reserve_balance |-> 0 ]
    /\ stake_list = <<>>
    /\ reserve_pda = 0
    /\ clock = 0
    /\ call = NoCall
    /\ audit = NewEpoch(NewSequence(NoAudit, stake_delta(state, reserve_pda)),
                        state.extra_stake_delta_runs)

(* One invocation of the handler.  The external programs can reject a     *)
(* step only in an invocation that invokes one.                            *)
Process(in, fail) ==
    /\ call = NoCall
    /\ LET acc == Accounts(in)
           r == process(acc, in, epoch_of(clock), clock, fail)
           post == Commit(acc, r)
       IN  /\ fail = "none" \/ r.acc.cpi # <<>>
           /\ state' = post.state
           /\ validator_list' = post.validator_list
           /\ stake_list' = post.stake_list
           /\ reserve_pda' = post.reserve_pda
           /\ call' = [ op |-> "process", in |-> in, pre |-> acc,
                        epoch |-> epoch_of(clock), slot |-> clock,
                        result |-> r.result, cond |-> r.cond, amount |-> r.amount,
                        stake_delta |-> r.stake_delta,
                        validator_stake_target |-> r.validator_stake_target,
                        cpi |-> r.acc.cpi,
                        stake_account |-> post.stake_account ]
           /\ audit' = Tally(audit, in.validator_index + 1,
                             r.result = "Ok" /\ r.amount > 0,
                             state.extra_stake_delta_runs
                                 - post.state.extra_stake_delta_runs,
                             reserve_pda - post.reserve_pda)
    /\ UNCHANGED clock

(* The bot reads the outcome of its transaction. *)
Observe ==
    /\ call # NoCall
    /\ call' = NoCall
    /\ UNCHANGED <<state, validator_list, stake_list, reserve_pda, clock, audit>>

(* A deposit instruction of the pool adds to the reserve; the model bounds  *)
(* the funds of the pool that are in the reserve or in its delegations.    *)
Deposit(amount) ==
    /\ call = NoCall
    /\ reserve_pda + SumAmount(stake_list) + amount <= MaxFunds
    /\ reserve_pda' = reserve_pda + amount
    /\ state' = [state EXCEPT !.available_reserve_balance = @ + amount]
    /\ audit' = NewSequence(audit, stake_delta(state', reserve_pda'))
    /\ UNCHANGED <<validator_list, stake_list, clock, call>>

(* The cluster moves to the next slot. *)
Tick ==
    /\ call = NoCall
    /\ clock < MaxSlot
    /\ clock' = clock + 1
    /\ audit' = IF epoch_of(clock') = epoch_of(clock) THEN audit
                 ELSE NewEpoch(audit, state.extra_stake_delta_runs)
    /\ UNCHANGED <<state, validator_list, stake_list, reserve_pda, call>>

Next ==
    \/ \E in \in Inputs, fail \in {"none"} \cup CpiSteps : Process(in, fail)
    \/ Observe
    \/ \E amount \in 1..2 : Deposit(amount)
    \/ Tick

Spec == Init /\ [][Next]_vars

----------------------------------------------------------------------------
(* Vocabulary of the properties *)

Called == call.op = "process"

(* The durable accounts now, and as the last invocation found them. *)
Durable ==
    [state |-> state, validator_list |-> validator_list,
     stake_list |-> stake_list, reserve_pda |-> reserve_pda]

Before ==
    [state |-> call.pre.state, validator_list |-> call.pre.validator_list,
     stake_list |-> call.pre.stake_list, reserve_pda |-> call.pre.reserve_pda]

NoMutation == Durable = Before /\ call.stake_account = call.pre.stake_account

Staked == Called /\ call.result = "Ok" /\ call.amount > 0

----------------------------------------------------------------------------
(* C1: in every reachable state the pool's total_active_balance equals the *)
(* sum of active_balance over the records of the validator registry.       *)
C1_TotalIsSum == state.total_active_balance = SumActive(validator_list)

C1_Witness ==
    Staked /\ state.total_active_balance > call.pre.state.total_active_balance

(* C2: a successful invocation that transfers A > 0 raises                 *)
(* total_active_balance by A, raises the active_balance of the record at   *)
(* validator_index by A, and leaves every other record's active_balance    *)
(* alone.                                                                  *)
C2_ExactCredit ==
    Staked =>
        /\ state.total_active_balance = call.pre.state.total_active_balance + call.amount
        /\ Len(validator_list) = Len(call.pre.validator_list)
        /\ \A i \in 1..Len(validator_list) :
              validator_list[i].active_balance =
                  call.pre.validator_list[i].active_balance
                  + (IF i = call.in.validator_index + 1 THEN call.amount ELSE 0)

C2_Witness ==
    /\ Staked
    /\ call.in.validator_index = 1
    /\ validator_list[2].active_balance = call.pre.validator_list[2].active_balance + 2
    /\ validator_list[1] = call.pre.validator_list[1]

PreDelta == stake_delta(call.pre.state, call.pre.reserve_pda)

RegistriesPass == call.in.validator_list_ok /\ call.in.stake_list_ok

AccountChecksPass ==
    /\ RegistriesPass
    /\ call.in.stake_history_ok
    /\ call.in.stake_state = "Uninitialized"
    /\ call.in.stake_lamports = RentExemptMinimum

(* The caller names a record of the registry and supplies its identity. *)
ValidatorNamed ==
    /\ call.in.validator_index < Len(call.pre.validator_list)
    /\ call.in.validator_vote =
           call.pre.validator_list[call.in.validator_index + 1].validator_account

PreValidator == call.pre.validator_list[call.in.validator_index + 1]

(* The validator was already acted on in the epoch of the call. *)
SecondCall == PreValidator.last_stake_delta_epoch = call.epoch

BelowWindowThreshold ==
    call.slot < get_last_slot_in_epoch(call.epoch) - call.pre.state.slots_for_stake_delta

BelowTarget ==
    PreValidator.active_balance <
        (Min(call.pre.state.total_active_balance + PreDelta, U64Max)
             * PreValidator.score)
            \div call.pre.state.total_validator_score

----------------------------------------------------------------------------
(* C3, as claimed: every call made while stake_delta(reserve_balance) <= 0 *)
(* returns success and changes nothing, whatever validator_index, the      *)
(* supplied validator identity, the slot's state and balance and the       *)
(* stake-history reference are.                                            *)
C3_Original ==
    (Called /\ RegistriesPass /\ PreDelta <= 0) =>
        call.result = "Ok" /\ NoMutation

(* C3, amended: a call made while stake_delta <= 0 changes nothing; it     *)
(* returns success exactly when the registries, the stake-history          *)
(* reference and the slot (Uninitialized, rent-exempt minimum) pass their  *)
(* checks, whatever validator_index and the supplied identity are, and     *)
(* the error of the failing check otherwise.                               *)
C3_NoStakeDelta ==
    (Called /\ PreDelta <= 0) =>
        /\ NoMutation
        /\ call.result = "Ok" <=> AccountChecksPass
        /\ call.cpi = <<>>

C3_Witness ==
    /\ Called /\ PreDelta = 0 /\ call.result = "Ok" /\ NoMutation
    /\ call.in.validator_index = 2
    /\ call.in.validator_vote = "voteA"

(* C4: a call that ends as the soft no-op "validator already at or above   *)
(* its target" changes no field of the pool state (extra_stake_delta_runs  *)
(* included), no validator record, no delegation record, not the reserve   *)
(* and not the slot, also when it is a same-epoch call made while          *)
(* extra_stake_delta_runs > 0.                                             *)
C4_ReachedTargetNoMutation ==
    (Called /\ call.result = "Ok" /\ call.cond = "reached_target") => NoMutation

C5_WitnessDouble ==
    /\ Called /\ AccountChecksPass /\ PreDelta > 0 /\ ValidatorNamed /\ SecondCall
    /\ call.pre.state.extra_stake_delta_runs = 0
    /\ call.result = "Ok" /\ NoMutation

(* C6: a staking action with stake_delta D > 0, min_stake M and            *)
(* transferred amount A has A <= D, A >= M or A = D, and a remainder D - A *)
(* that is 0 or at least M.                                                *)
C6_AmountBounds ==
    Staked =>
        LET D == PreDelta
            M == call.pre.state.min_stake
            A == call.amount
        IN  /\ D > 0
            /\ A <= D
            /\ A >= M \/ A = D
            /\ D - A = 0 \/ D - A >= M

C6_Witness == Staked /\ PreDelta - call.amount >= call.pre.state.min_stake

(* C7: the transferred amount is, for shortfall S > 0, min_stake M and     *)
(* stake_delta D > 0: raw = min(max(S, M), D), then D if D - raw < M and   *)
(* raw otherwise; M = 1_000_000, D = 5_000_000 give 2_500_000 for          *)
(* S = 2_500_000 and 5_000_000 for S = 4_800_000.                          *)
C7_Amount(S, M, D) ==
    LET floor == IF S >= M THEN S ELSE M
        raw == IF floor <= D THEN floor ELSE D
    IN  IF D - raw < M THEN D ELSE raw

C7_AmountFormula ==
    /\ Staked =>
          LET S == call.validator_stake_target - PreValidator.active_balance
          IN  /\ S > 0
              /\ call.amount = C7_Amount(S, call.pre.state.min_stake, PreDelta)
    /\ stake_target(2500000, 0, 1000000, 5000000) = 2500000
    /\ stake_target(4800000, 0, 1000000, 5000000) = 5000000

C7_Witness ==
    /\ Staked
    /\ call.amount = 2 /\ PreDelta = 4
    /\ call.validator_stake_target - PreValidator.active_balance = 2

(* The call gets as far as the window check of the handler. *)
ReachesWindowCheck ==
    /\ AccountChecksPass
    /\ PreDelta > 0
    /\ ValidatorNamed
    /\ ~(SecondCall /\ call.pre.state.extra_stake_delta_runs = 0)

(* C8, as claimed: whenever process is called with the current slot below  *)
(* the window threshold (last slot of the epoch minus                      *)
(* slots_for_stake_delta), nothing is mutated and the call returns the     *)
(* window-specific error.                                                  *)
C8_Original ==
    (Called /\ AccountChecksPass /\ ValidatorNamed /\ BelowWindowThreshold) =>
        call.result = "Custom332" /\ NoMutation

(* C8, amended: a call made with the current slot below the window         *)
(* threshold mutates nothing; it returns the window-specific error         *)
(* exactly when it gets as far as the window check, that is when the       *)
(* account checks pass, stake_delta > 0, the validator is named correctly  *)
(* and the call is not a same-epoch call with extra_stake_delta_runs = 0;  *)
(* no call made inside the window returns that error.                      *)
C8_WindowError ==
    Called =>
        /\ BelowWindowThreshold =>
              /\ NoMutation
              /\ call.cpi = <<>>
              /\ call.result = "Custom332" <=> ReachesWindowCheck
        /\ call.result = "Custom332" => BelowWindowThreshold

C8_Witness ==
    /\ Called /\ BelowWindowThreshold /\ ReachesWindowCheck
    /\ call.result = "Custom332"
    /\ call.epoch = 1
    /\ NoMutation

(* C9: if Transfer, Initialize or Delegate fails during an invocation, the *)
(* reserve balance, the slot, both registries and the pool state are       *)
(* afterwards exactly as before the invocation; and no invocation leaves   *)
(* the reserve debited without the delegation recorded.                    *)
StepFailed == \E i \in DOMAIN call.cpi : ~call.cpi[i].ok

C9_AllOrNothing ==
    Called =>
        /\ StepFailed => (call.result # "Ok" /\ NoMutation)
        /\ reserve_pda # call.pre.reserve_pda =>
              /\ Len(stake_list) = Len(call.pre.stake_list) + 1
              /\ stake_list[Len(stake_list)].last_update_delegated_lamports
                     = call.pre.reserve_pda - reserve_pda
              /\ state.available_reserve_balance
                     = call.pre.state.available_reserve_balance
                       - (call.pre.reserve_pda - reserve_pda)
              /\ call.stake_account.state = "Delegated"

C9_Witness ==
    /\ Called /\ NoMutation
    /\ Len(call.cpi) = 3
    /\ call.cpi[1].ok /\ call.cpi[2].ok /\ ~call.cpi[3].ok
    /\ call.result = "DelegateFailed"

(* C10: the hard-failure conditions of process (malformed stake-history    *)
(* reference, slot not uninitialized, slot with wrong funded balance,      *)
(* registry checksum mismatch, validator identity mismatch, outside the    *)
(* window, arithmetic overflow) return pairwise distinct error values.     *)
FailureCode(class) ==
    CASE class = "stake_history"         -> ErrorCode("stake_history")
      [] class = "stake_account_state"   -> ErrorCode("stake_account_state")
      [] class = "stake_account_balance" -> ErrorCode("stake_account_balance")
      [] class = "checksum"              -> HelperErrorCode("validator_list")
      [] class = "validator_vote"        -> HelperErrorCode("validator_vote")
      [] class = "window"                -> ErrorCode("window")
      [] class = "overflow"              -> ErrorCode("overflow")

FailureClasses ==
    {"stake_history", "stake_account_state", "stake_account_balance", "checksum",
     "validator_vote", "window", "overflow"}

FailureClass(cond) ==
    IF cond \in {"validator_list", "stake_list"} THEN "checksum" ELSE cond

C10_DistinctErrors ==
    (Called /\ call.result # "Ok" /\ FailureClass(call.cond) \in FailureClasses) =>
        \A other \in FailureClasses \ {FailureClass(call.cond)} :
            FailureCode(other) # call.result

----------------------------------------------------------------------------
(* The protocol's three steps succeeded and the delegation registry has    *)
(* room: the call reaches the additions of lines 280-297.                  *)
ReachesBookkeeping ==
    /\ Called
    /\ Len(call.cpi) = 3
    /\ ~StepFailed
    /\ Len(call.pre.stake_list) < StakeListCapacity

(* The amount such a call transferred before its bookkeeping. *)
TransferredAmount ==
    C7_Amount(call.validator_stake_target - PreValidator.active_balance,
              call.pre.state.min_stake, PreDelta)

(* C11, as claimed: every addition on balances that would exceed the       *)
(* integer width makes the invocation fail with the calculation-failure    *)
(* error, the computation total_active_balance + stake_delta of the total  *)
(* stake target included.                                                  *)
C11_Original ==
    (/\ Called /\ ReachesWindowCheck /\ ~BelowWindowThreshold
     /\ ~StepFailed
     /\ Len(call.pre.stake_list) < StakeListCapacity
     /\ call.pre.state.total_active_balance + PreDelta > U64Max)
        => call.result = ErrorCode("overflow")

(* C11, amended: the increase of validator.active_balance and the increase *)
(* of total_active_balance fail the invocation with the calculation-       *)
(* failure error, and change nothing, when the sum would exceed the        *)
(* integer width, and no balance ever exceeds the width; the total stake   *)
(* target total_active_balance + stake_delta is a saturating addition: it  *)
(* is clamped to the largest value and does not fail the invocation.       *)
C11_CheckedAdditions ==
    /\ ReachesBookkeeping =>
          IF \/ PreValidator.active_balance + TransferredAmount > U64Max
             \/ call.pre.state.total_active_balance + TransferredAmount > U64Max
          THEN call.result = ErrorCode("overflow") /\ NoMutation
          ELSE call.result = "Ok" /\ call.amount = TransferredAmount
    /\ (Called /\ call.validator_stake_target > 0) =>
          call.validator_stake_target =
              (Min(call.pre.state.total_active_balance + PreDelta, U64Max)
                   * PreValidator.score)
                  \div call.pre.state.total_validator_score
    /\ state.total_active_balance <= U64Max
    /\ \A i \in DOMAIN validator_list : validator_list[i].active_balance <= U64Max

(* The increase of total_active_balance would exceed the width. *)
C11_Witness ==
    /\ ReachesBookkeeping
    /\ PreValidator.active_balance + TransferredAmount <= U64Max
    /\ call.pre.state.total_active_balance + TransferredAmount > U64Max
    /\ call.result = ErrorCode("overflow")
    /\ reserve_pda = call.pre.reserve_pda

(* The increase of validator.active_balance would exceed the width. *)
C11_WitnessValidator ==
    /\ ReachesBookkeeping
    /\ PreValidator.active_balance + TransferredAmount > U64Max
    /\ call.result = ErrorCode("overflow")

(* The total stake target is clamped and the call succeeds. *)
C11_WitnessClamped ==
    /\ Called
    /\ call.pre.state.total_active_balance + PreDelta > U64Max
    /\ call.result = "Ok"
    /\ call.validator_stake_target = U64Max

----------------------------------------------------------------------------
(* The same call made again on the accounts as they are now. *)
Repeated(fail) == process(Accounts(call.in), call.in, call.epoch, call.slot, fail)

(* C12: when the validation of the validator registry or of the            *)
(* delegation registry fails, process returns the checksum error before    *)
(* any mutation or protocol step is attempted, whatever the other inputs   *)
(* are (stake_delta <= 0 included), and the same call repeated on the      *)
(* resulting state returns the same error and leaves the same state.       *)
C12_RegistryCheckFirst ==
    (Called /\ ~RegistriesPass) =>
        /\ call.result = HelperErrorCode("validator_list")
        /\ call.cond \in {"validator_list", "stake_list"}
        /\ NoMutation
        /\ call.cpi = <<>>
        /\ \A fail \in {"none"} \cup CpiSteps :
              /\ Repeated(fail).result = call.result
              /\ Repeated(fail).acc.cpi = <<>>
              /\ Commit(Accounts(call.in), Repeated(fail)) = call.pre

C12_Witness ==
    /\ Called
    /\ call.in.validator_list_ok /\ ~call.in.stake_list_ok
    /\ PreDelta <= 0
    /\ call.in.stake_state = "Initialized"
    /\ call.in.validator_index = 2
    /\ call.result = HelperErrorCode("stake_list")
    /\ Durable = Before

----------------------------------------------------------------------------
(* C13: within one epoch the number of successful staking actions for one  *)
(* validator is at most 1 plus the number of extra runs consumed for it;   *)
(* with a budget of 0 each validator is staked at most once in the epoch,  *)
(* and with a budget of K over N validators at most N + K staking actions  *)
(* happen in the epoch; extra_stake_delta_runs is only ever decremented by *)
(* 1 from a positive value and never underflows.                           *)
C13_StakingPerEpoch ==
    /\ \A v \in DOMAIN validator_list :
          /\ audit.staked[v] <= 1 + audit.consumed[v]
          /\ audit.budget = 0 => audit.staked[v] <= 1
    /\ audit.staked[1] + audit.staked[2] <= Len(validator_list) + audit.budget
    /\ state.extra_stake_delta_runs >= 0
    /\ audit.consumed[1] + audit.consumed[2]
           = audit.budget - state.extra_stake_delta_runs
    /\ Called =>
          \/ state.extra_stake_delta_runs = call.pre.state.extra_stake_delta_runs
          \/ /\ call.pre.state.extra_stake_delta_runs > 0
             /\ state.extra_stake_delta_runs
                    = call.pre.state.extra_stake_delta_runs - 1

(* Two validators and a budget of one extra run: three staking actions in  *)
(* one epoch, the third one on the extra run.                              *)
C13_Witness ==
    /\ Staked
    /\ audit.budget = 1
    /\ audit.staked = <<1, 2>>
    /\ audit.consumed = <<0, 1>>
    /\ state.extra_stake_delta_runs = 0

----------------------------------------------------------------------------
(* The order in which the handler drives the slot. *)
StepOrder == <<"Transfer", "Initialize", "Delegate">>

(* C14: an invocation drives the slot in the order Transfer, Initialize,   *)
(* Delegate; after it a slot supplied Uninitialized is either Delegated    *)
(* and holds its original balance plus the transferred amount (staking     *)
(* action) or is still Uninitialized with its original balance (soft      *)
(* no-op or failure); whatever the supplied slot, an invocation that is    *)
(* not a staking action leaves it exactly as supplied, so none ends with   *)
(* the slot funded but uninitialized or initialized but undelegated.       *)
C14_SlotStateMachine ==
    Called =>
        /\ Len(call.cpi) <= Len(StepOrder)
        /\ \A i \in DOMAIN call.cpi :
              /\ call.cpi[i].step = StepOrder[i]
              /\ i < Len(call.cpi) => call.cpi[i].ok
        /\ IF Staked
           THEN /\ call.pre.stake_account.state = "Uninitialized"
                /\ call.stake_account.state = "Delegated"
                /\ call.stake_account.lamports
                       = call.pre.stake_account.lamports + call.amount
                /\ reserve_pda = call.pre.reserve_pda - call.amount
                /\ Len(call.cpi) = Len(StepOrder)
                /\ ~StepFailed
           ELSE /\ call.stake_account = call.pre.stake_account
                /\ reserve_pda = call.pre.reserve_pda
                /\ call.result = "Ok" => call.cpi = <<>>
        /\ call.in.stake_state = "Uninitialized" =>
              call.stake_account.state \in {"Uninitialized", "Delegated"}

C14_Witness ==
    /\ Staked
    /\ call.stake_account.state = "Delegated"
    /\ call.stake_account.lamports = RentExemptMinimum + call.amount
    /\ call.stake_account.voter = "voteB"

(* The Delegate step fails after the slot was funded and initialized. *)
C14_WitnessFailed ==
    /\ Called
    /\ Len(call.cpi) = Len(StepOrder)
    /\ StepFailed
    /\ call.stake_account.state = "Uninitialized"
    /\ call.stake_account.lamports = RentExemptMinimum

----------------------------------------------------------------------------
(* C15: if the supplied slot is not Uninitialized, or its balance is       *)
(* higher or lower than the rent-exempt minimum of a delegation slot,      *)
(* process fails with a hard error (the invalid-account-data error once    *)
(* the registries and the stake-history reference pass), mutates nothing   *)
(* and invokes no external protocol step.                                  *)
C15_SlotRejected ==
    (/\ Called
     /\ \/ call.in.stake_state # "Uninitialized"
        \/ call.in.stake_lamports # RentExemptMinimum) =>
        /\ call.result # "Ok"
        /\ NoMutation
        /\ call.cpi = <<>>
        /\ (RegistriesPass /\ call.in.stake_history_ok) =>
              /\ call.result = ErrorCode("stake_account_state")
              /\ call.cond = IF call.in.stake_state # "Uninitialized"
                             THEN "stake_account_state"
                             ELSE "stake_account_balance"

(* An Uninitialized slot funded above the minimum, on a call that would    *)
(* otherwise stake.                                                        *)
C15_Witness ==
    /\ Called
    /\ call.in.stake_state = "Uninitialized"
    /\ call.in.stake_lamports > RentExemptMinimum
    /\ RegistriesPass /\ call.in.stake_history_ok
    /\ PreDelta > 0 /\ ValidatorNamed /\ ~BelowWindowThreshold /\ BelowTarget
    /\ call.result = ErrorCode("stake_account_balance")

----------------------------------------------------------------------------
(* C16: each successful staking action appends exactly one                 *)
(* DelegationRecord (the slot's identity, the transferred amount, the      *)
(* current epoch, is_emergency_unstaking false) to the delegation          *)
(* registry; soft no-ops and failures append none; no invocation changes   *)
(* or removes an existing record, so the count never decreases, and the    *)
(* amounts of the records appended sum to the increase of                  *)
(* total_active_balance.                                                   *)
C16_OneRecordPerStake ==
    /\ Called =>
          /\ IF Staked
             THEN stake_list =
                      Append(call.pre.stake_list,
                             [stake_account |-> call.pre.stake_account.key,
                              last_update_delegated_lamports
                                  |-> call.pre.reserve_pda - reserve_pda,
                              last_update_epoch |-> call.epoch,
                              is_emergency_unstaking |-> 0])
             ELSE stake_list = call.pre.stake_list
          /\ Staked => call.pre.reserve_pda - reserve_pda = call.amount
          /\ SumAmount(stake_list) - SumAmount(call.pre.stake_list)
                 = state.total_active_balance - call.pre.state.total_active_balance
    /\ state.total_active_balance - SumAmount(stake_list) \in InitialBalances

(* A second record is appended in a later epoch than the first. *)
C16_Witness ==
    /\ Staked
    /\ Len(stake_list) = 2
    /\ stake_list[1].last_update_epoch < stake_list[2].last_update_epoch
    /\ stake_list[2].last_update_delegated_lamports = call.amount
    /\ stake_list[2].stake_account = call.stake_account.key

----------------------------------------------------------------------------
(* C17: when stake_delta > 0 and the supplied validator identity differs   *)
(* from the identity of the record at validator_index, or validator_index  *)
(* is out of range, process fails with a hard error, mutates nothing and   *)
(* invokes no protocol step; every successful staking action delegates the *)
(* slot to the identity stored at validator_index and credits that record. *)
C17_ValidatorIdentity ==
    /\ (Called /\ PreDelta > 0 /\ ~ValidatorNamed) =>
          /\ call.result # "Ok"
          /\ NoMutation
          /\ call.cpi = <<>>
          /\ AccountChecksPass =>
                call.result =
                    IF call.in.validator_index >= Len(call.pre.validator_list)
                    THEN HelperErrorCode("validator_index")
                    ELSE HelperErrorCode("validator_vote")
    /\ Staked =>
          /\ ValidatorNamed
          /\ call.stake_account.voter = PreValidator.validator_account
          /\ call.stake_account.voter
                 = validator_list[call.in.validator_index + 1].validator_account
          /\ validator_list[call.in.validator_index + 1].active_balance
                 = PreValidator.active_balance + call.amount
          /\ \A i \in DOMAIN validator_list :
                i # call.in.validator_index + 1 =>
                    validator_list[i] = call.pre.validator_list[i]

(* The record of voteB is named with the identity of voteA on a call that  *)
(* would otherwise stake to it.                                            *)
C17_Witness ==
    /\ Called /\ AccountChecksPass /\ PreDelta > 0
    /\ call.in.validator_index = 1
    /\ call.in.validator_vote = "voteA"
    /\ ~BelowWindowThreshold
    /\ call.pre.validator_list[2].active_balance = 0
    /\ call.pre.validator_list[2].score = 1
    /\ call.result = HelperErrorCode("validator_vote")
    /\ call.cpi = <<>>

(* validator_index is out of range. *)
C17_WitnessIndex ==
    /\ Called /\ AccountChecksPass /\ PreDelta > 0
    /\ call.in.validator_index = Len(call.pre.validator_list)
    /\ call.result = HelperErrorCode("validator_index")

----------------------------------------------------------------------------
(* C18: the persisted last_stake_delta_epoch of a validator record is      *)
(* changed only by a successful staking action for that validator, which   *)
(* sets it and the pool-wide last_stake_delta_epoch to the current epoch;  *)
(* a first-of-epoch call that ends as a soft no-op or as a hard failure    *)
(* leaves the validator unmarked, so as long as the validator has no       *)
(* staking action in the epoch a call for it is treated as the first       *)
(* action and consumes no extra run.                                       *)
C18_MarkedByStakingOnly ==
    /\ Called =>
          \A i \in DOMAIN validator_list :
              validator_list[i].last_stake_delta_epoch
                      # call.pre.validator_list[i].last_stake_delta_epoch =>
                  /\ Staked
                  /\ i = call.in.validator_index + 1
    /\ Staked =>
          /\ validator_list[call.in.validator_index + 1].last_stake_delta_epoch
                 = call.epoch
          /\ state.last_stake_delta_epoch = call.epoch
    /\ \A v \in DOMAIN validator_list :
          audit.staked[v] = 0 =>
              /\ validator_list[v].last_stake_delta_epoch # epoch_of(clock)
              /\ audit.consumed[v] = 0
    /\ (Called /\ ValidatorNamed /\ audit.staked[call.in.validator_index + 1] = 0) =>
          /\ ~SecondCall
          /\ state.extra_stake_delta_runs = call.pre.state.extra_stake_delta_runs

(* A first-of-epoch call fails outside the window while extra runs are     *)
(* left: the validator stays unmarked and the budget untouched.            *)
C18_Witness ==
    /\ Called /\ ValidatorNamed
    /\ call.cond = "window"
    /\ ~SecondCall
    /\ call.pre.state.extra_stake_delta_runs > 0
    /\ PreValidator.last_stake_delta_epoch # call.epoch
    /\ validator_list[call.in.validator_index + 1].last_stake_delta_epoch
           # call.epoch

(* A first-of-epoch call finds the validator at its target. *)
C18_WitnessNoOp ==
    /\ Called /\ ValidatorNamed
    /\ call.cond = "reached_target"
    /\ ~SecondCall
    /\ validator_list = call.pre.validator_list

----------------------------------------------------------------------------
====
